---- MODULE Spec2Model ----
(***************************************************************************)
(* A model of transfer-logs.c: the decoder of the archive metadata file    *)
(* (read_dat_file), the reconstruction of a buffer's time vector           *)
(* (create_rra_time), the import loaders (read_csv_time, read_csv_data),   *)
(* the pivoted binary search (search), the merge (sort_data_for_rra) and   *)
(* the per-buffer driver (merge_data).                                     *)
(*                                                                         *)
(* C arrays are functions over 0..n-1.  An access outside the allocated    *)
(* block is undefined behaviour: a read yields a word chosen from Garbage  *)
(* (or GarbageVals), a write lands outside the array, and both are noted   *)
(* in the variable oob.                                                    *)
(***************************************************************************)
EXTENDS Integers, Sequences, FiniteSets, TLC

VARIABLES
  pc,         \* position of the running function
  sub,        \* data->subset[subset]: the Buffer descriptor
  csv_file,   \* the import file: a sequence of rows [t, v]
  rra_file,   \* the destination archive payload file: a sequence of values, or NULL
  io,         \* merge_data: what the file system answers, and the messages printed
  max_time,   \* the cutoff handed to merge_data
  time_rra,   \* int* returned by create_rra_time
  time_csv,   \* int* returned by read_csv_time
  int_rra,    \* int* returned by read_rra_file
  int_csv,    \* int* returned by read_csv_data
  int_tmp,    \* int* returned by sort_data_for_rra
  window,     \* [t_min, t_max] as computed by sort_data_for_rra
  oob,        \* the out-of-bounds accesses made so far
  s_arr,      \* search: the array searched
  s_key,      \* search: the key
  s_res,      \* search: the result
  dir,        \* the .dat files of the directory, in readdir order
  fidx,       \* the .dat file being processed (0: none yet)
  data,       \* dat_s *data of read_dat_file / inject_data
  fp,         \* read position in the .dat file
  dat_j,      \* read_dat_file: j, index of the subset being read
  set_i,      \* inject_data: i, index of the subset being merged
  diag,       \* the diagnostics printed so far
  merged,     \* the merge_data calls made: <<file, subset, csv opened>>
  paths,      \* what get_csv_path and get_rra_path answered for data and set_i
  argv,       \* main: the command line, argv[0] first
  argi,       \* main: i, index of the argument being parsed
  opt,        \* main: the flags and strings set by the option loop
  calls       \* main: the processing steps called, in order, with their argument

mergeVars == <<io, sub, csv_file, rra_file, max_time, time_rra, time_csv, int_rra,
               int_csv, int_tmp, window>>
searchVars == <<s_arr, s_key, s_res>>
datVars == <<dir, fidx, data, fp, dat_j, set_i, diag, merged>>
pathVars == <<paths>>
mainVars == <<argv, argi, opt, calls>>
vars == <<pc, oob, mergeVars, searchVars, datVars, pathVars, mainVars>>

----------------------------------------------------------------------------
(* Bounds of the model *)

MaxSamples == 3
MaxRows == 3
MaxSize == 4

(* Input domains *)
NewestTimes == {6}
Intervals == {1, 2}
CsvTimes == 1..6
NoCutoff == 2147483647
Cutoffs == {4, NoCutoff}
Garbage == {0, 4, 6}
GarbageVals == {-7, 0}
SearchVals == 1..5

Unset == <<>>

(* the value of an integer slot that was never filled *)
UNFILLED == 2147483647

(* a null pointer; as a file, one that does not exist *)
NULL == <<-1>>

SeqsUpTo(S, n) == UNION {[1..k -> S] : k \in 0..n}

----------------------------------------------------------------------------
(* search: the pivoted binary search over arr[l..h] *)

(* search with the left end of the sorted half left out of the range test *)
RECURSIVE search_mut(_, _, _, _)
search_mut(arr, l, h, key) ==
  IF l > h THEN -1
  ELSE LET mid == (l + h) \div 2 IN
    IF arr[mid] = key THEN mid
    ELSE IF arr[l] <= arr[mid]
      THEN IF key > arr[l] /\ key <= arr[mid]
             THEN search_mut(arr, l, mid - 1, key)
             ELSE search_mut(arr, mid + 1, h, key)
      ELSE IF key >= arr[mid] /\ key <= arr[h]
             THEN search_mut(arr, mid + 1, h, key)
             ELSE search_mut(arr, l, mid - 1, key)

RECURSIVE search(_, _, _, _)
search(arr, l, h, key) ==
  IF l > h THEN -1
  ELSE LET mid == (l + h) \div 2 IN
    IF arr[mid] = key THEN mid
    ELSE IF arr[l] <= arr[mid]
      THEN IF key >= arr[l] /\ key <= arr[mid]
             THEN search(arr, l, mid - 1, key)
             ELSE search(arr, mid + 1, h, key)
      ELSE IF key >= arr[mid] /\ key <= arr[h]
             THEN search(arr, mid + 1, h, key)
             ELSE search(arr, l, mid - 1, key)

(* the indices of arr that search reads on the way *)
RECURSIVE search_reads(_, _, _, _)
search_reads(arr, l, h, key) ==
  IF l > h THEN {}
  ELSE LET mid == (l + h) \div 2 IN
    IF arr[mid] = key THEN {mid}
    ELSE IF arr[l] <= arr[mid]
      THEN IF key >= arr[l] /\ key <= arr[mid]
             THEN {l, mid} \cup search_reads(arr, l, mid - 1, key)
             ELSE {l, mid} \cup search_reads(arr, mid + 1, h, key)
      ELSE IF key >= arr[mid] /\ key <= arr[h]
             THEN {l, mid, h} \cup search_reads(arr, mid + 1, h, key)
             ELSE {l, mid, h} \cup search_reads(arr, l, mid - 1, key)

----------------------------------------------------------------------------
(* create_rra_time *)

(* The block calloc'ed for n ints, with the words around it. *)
Cells(n) == (-2)..n

Put(st, i, v) == [mem |-> [st.mem EXCEPT ![i] = v], writes |-> Append(st.writes, i)]

(* do { time_rra[j-1] = time_rra[j] - interval; j--; } while ( j > 0 ); *)
RECURSIVE rra_time_down(_, _, _)
rra_time_down(st, j, interval) ==
  LET st1 == Put(st, j - 1, st.mem[j] - interval)
  IN  IF j - 1 > 0 THEN rra_time_down(st1, j - 1, interval) ELSE st1

(* do { j--; time_rra[j] = time_rra[j+1] - interval; } while ( j > file_offset+1 ); *)
RECURSIVE rra_time_wrap(_, _, _, _)
rra_time_wrap(st, j, interval, fo) ==
  LET st1 == Put(st, j - 1, st.mem[j] - interval)
  IN  IF j - 1 > fo + 1 THEN rra_time_wrap(st1, j - 1, interval, fo) ELSE st1

create_rra_time(s) ==
  LET interval == s.timestamp_1 - s.timestamp_0
      n  == s.n_samples
      fo == s.file_offset
      st0 == [mem |-> [i \in Cells(n) |-> 0], writes |-> <<>>]
      st1 == Put(st0, fo, s.timestamp_1)
      st2 == rra_time_down(st1, fo, interval)
      st3 == Put(st2, n - 1, st2.mem[0] - interval)
      st4 == rra_time_wrap(st3, n - 1, interval, fo)
  IN  [arr |-> [i \in 0..(n - 1) |-> st4.mem[i]], writes |-> st4.writes]

----------------------------------------------------------------------------
(* read_csv_time, read_csv_data, read_rra_file *)

(* while ( fgets ) { sscanf; if ( t <= max ) { arr[j] = x; j++; } }        *)
(* f picks the stored field of a row.                                       *)
RECURSIVE csv_loop(_, _, _, _, _, _)
csv_loop(rows, k, n, t_max, st, f) ==
  IF k > Len(rows) THEN st
  ELSE IF rows[k].t <= t_max
    THEN csv_loop(rows, k + 1, n, t_max,
           [arr |-> IF st.j \in 0..(n - 1)
                      THEN [st.arr EXCEPT ![st.j] = f[rows[k]]]
                      ELSE st.arr,
            j |-> st.j + 1,
            over |-> st.over \/ st.j >= n], f)
    ELSE csv_loop(rows, k + 1, n, t_max, st, f)

CsvStart(n) == [arr |-> [i \in 0..(n - 1) |-> 0], j |-> 0, over |-> FALSE]

read_csv_time(rows, s, t_max) ==
  csv_loop(rows, 1, s.n_samples, t_max, CsvStart(s.n_samples),
           [r \in {rows[k] : k \in 1..Len(rows)} |-> r.t])

read_csv_data(rows, s, t_max) ==
  csv_loop(rows, 1, s.n_samples, t_max, CsvStart(s.n_samples),
           [r \in {rows[k] : k \in 1..Len(rows)} |-> r.v])

(* fread leaves the calloc'ed zero when the file is shorter than n_samples *)
read_rra_file(file, s) ==
  [j \in 0..(s.n_samples - 1) |-> IF j + 1 <= Len(file) THEN file[j + 1] ELSE 0]

----------------------------------------------------------------------------
(* sort_data_for_rra *)

(* g_min: the word at time_rra[n_samples]; g_t: the word at                *)
(* time_csv[n_samples]; g_v: the word at int_csv[n_samples].               *)
sort_data_for_rra(s, icsv, irra, tcsv, trra, g_min, g_t, g_v) ==
  LET n  == s.n_samples
      fo == s.file_offset
      At(a, i, g) == IF i \in DOMAIN a THEN a[i] ELSE g
      t_min == At(trra, fo + 1, g_min)
      t_max == At(trra, fo, g_min)
      arr == [i \in 0..n |-> At(tcsv, i, g_t)]
      idx(i) == search(arr, 0, n, trra[i])
      gate(i) == tcsv[i] >= t_min /\ tcsv[i] <= t_max
  IN  [int_tmp |-> [i \in 0..(n - 1) |->
                      IF gate(i) /\ idx(i) >= 0
                        THEN At(icsv, idx(i), g_v)
                        ELSE irra[i]],
       t_min |-> t_min,
       t_max |-> t_max,
       oob |-> (IF fo + 1 \notin DOMAIN trra THEN {"sort:time_rra[file_offset+1]"} ELSE {})
               \cup (IF fo \notin DOMAIN trra THEN {"sort:time_rra[file_offset]"} ELSE {})
               \cup (IF \E i \in 0..(n - 1) : gate(i) /\ n \in search_reads(arr, 0, n, trra[i])
                       THEN {"sort:time_csv[n_samples]"} ELSE {})
               \cup (IF \E i \in 0..(n - 1) : gate(i) /\ idx(i) = n
                       THEN {"sort:int_csv[n_samples]"} ELSE {})]

----------------------------------------------------------------------------
(* merge_data, one step per call *)

(* The values a read of a[i] can yield: a[i], or any word when i is outside a *)
WordAt(a, i) == IF i \in DOMAIN a THEN {a[i]} ELSE Garbage

Buffers ==
  {[n_samples |-> n, file_offset |-> fo, timestamp_0 |-> t1 - d, timestamp_1 |-> t1] :
     n \in 0..MaxSamples, fo \in 0..MaxSamples, t1 \in NewestTimes, d \in Intervals}

ValidBuffer(s) == s.file_offset = 0 \/ s.file_offset < s.n_samples

CsvFiles ==
  {[k \in 1..Len(ts) |-> [t |-> ts[k], v |-> 90 + k]] : ts \in SeqsUpTo(CsvTimes, MaxRows)}

RraFile(n) == [k \in 1..n |-> 9 + k]

SearchIdle == s_arr = Unset /\ s_key = 0 /\ s_res = -2

DatIdle ==
  /\ dir = <<>> /\ fidx = 0 /\ data = Unset /\ fp = 0 /\ dat_j = 0 /\ set_i = 0
  /\ diag = <<>> /\ merged = <<>>

PathIdle == paths = Unset

MainIdle == argv = <<>> /\ argi = 0 /\ opt = Unset /\ calls = <<>>

(* what merge_data meets: csv_ok, the import file opens; wb_ok, the        *)
(* destination file opens for writing; written, the number of elements     *)
(* fwrite stores; rra0, the destination file before the call               *)
Io(csv_ok, wb_ok, written, rra0) ==
  [csv_ok |-> csv_ok, wb_ok |-> wb_ok, written |-> written, rra0 |-> rra0, msgs |-> <<>>]

Printf(msg) == io' = [io EXCEPT !.msgs = Append(@, msg)]

Init ==
  /\ pc = "merge_data"
  /\ sub \in {s \in Buffers : ValidBuffer(s)}
  /\ csv_file \in CsvFiles
  /\ rra_file = RraFile(sub.n_samples)
  /\ io = Io(TRUE, TRUE, sub.n_samples, rra_file)
  /\ max_time \in Cutoffs
  /\ time_rra = Unset /\ time_csv = Unset /\ int_rra = Unset
  /\ int_csv = Unset /\ int_tmp = Unset
  /\ window = Unset
  /\ oob = {}
  /\ SearchIdle
  /\ DatIdle
  /\ PathIdle
  /\ MainIdle

(* if ( fp_csv = fopen( csv_path, "r" ) ) { time_rra = create_rra_time( ... ) *)
(* } else { printf( "merge_data: Cannot open file ..." ) }                 *)
CreateRraTime ==
  /\ pc = "merge_data"
  /\ IF io.csv_ok
       THEN LET r == create_rra_time(sub) IN
              /\ time_rra' = r.arr
              /\ oob' = oob \cup {"create_rra_time:time_rra[" \o ToString(r.writes[k]) \o "]" :
                                    k \in {k \in 1..Len(r.writes) : r.writes[k] \notin 0..(sub.n_samples - 1)}}
              /\ pc' = "read_csv_time"
              /\ io' = io
       ELSE /\ Printf("merge_data: Cannot open file for reading")
            /\ pc' = "returned:merge_data"
            /\ UNCHANGED <<time_rra, oob>>
  /\ UNCHANGED <<sub, csv_file, rra_file, max_time, time_csv, int_rra, int_csv,
                 int_tmp, window, searchVars, datVars, pathVars, mainVars>>

ReadCsvTime ==
  /\ pc = "read_csv_time"
  /\ LET r == read_csv_time(csv_file, sub, max_time) IN
       /\ time_csv' = r.arr
       /\ oob' = oob \cup (IF r.over THEN {"read_csv_time:time_csv[j]"} ELSE {})
  /\ pc' = "read_rra_file"
  /\ UNCHANGED <<io, sub, csv_file, rra_file, max_time, time_rra, int_rra, int_csv,
                 int_tmp, window, searchVars, datVars, pathVars, mainVars>>

(* int_rra = read_rra_file( rra_path, data, subset ): NULL when the file   *)
(* does not open                                                           *)
ReadRraFile ==
  /\ pc = "read_rra_file"
  /\ IF rra_file = NULL
       THEN /\ int_rra' = NULL
            /\ Printf("read_rra_file: Cannot open file for reading")
       ELSE /\ int_rra' = read_rra_file(rra_file, sub)
            /\ io' = io
  /\ pc' = "read_csv_data"
  /\ UNCHANGED <<sub, csv_file, rra_file, max_time, time_rra, time_csv, int_csv,
                 int_tmp, window, oob, searchVars, datVars, pathVars, mainVars>>

ReadCsvData ==
  /\ pc = "read_csv_data"
  /\ LET r == read_csv_data(csv_file, sub, max_time) IN
       /\ int_csv' = r.arr
       /\ oob' = oob \cup (IF r.over THEN {"read_csv_data:int_csv[j]"} ELSE {})
  /\ pc' = "sort_data_for_rra"
  /\ UNCHANGED <<io, sub, csv_file, rra_file, max_time, time_rra, time_csv, int_rra,
                 int_tmp, window, searchVars, datVars, pathVars, mainVars>>

(* int_temp = sort_data_for_rra( ... ); with int_rra = NULL the copy       *)
(* int_tmp[i] = int_rra[i] reads through the null pointer                  *)
SortDataForRra ==
  /\ pc = "sort_data_for_rra"
  /\ \E g_min \in WordAt(time_rra, sub.file_offset + 1),
        g_t \in Garbage, g_v \in GarbageVals :
       LET null == int_rra = NULL /\ sub.n_samples > 0
           irra == IF null THEN [k \in 0..(sub.n_samples - 1) |-> g_v]
                   ELSE IF int_rra = NULL THEN Unset ELSE int_rra
           r == sort_data_for_rra(sub, int_csv, irra, time_csv, time_rra,
                                  g_min, g_t, g_v) IN
         \/ /\ int_tmp' = r.int_tmp
            /\ window' = <<r.t_min, r.t_max>>
            /\ oob' = oob \cup r.oob
                          \cup (IF null THEN {"sort:int_rra=NULL"} ELSE {})
            /\ pc' = "fwrite"
         \/ /\ null
            /\ oob' = oob \cup {"sort:int_rra=NULL"}
            /\ pc' = "crash"
            /\ UNCHANGED <<int_tmp, window>>
  /\ UNCHANGED <<io, sub, csv_file, rra_file, max_time, time_rra, time_csv, int_rra,
                 int_csv, searchVars, datVars, pathVars, mainVars>>

(* if ( fp_rra = fopen( rra_out_path, "wb" ) ) { fwrite( int_temp,         *)
(* sizeof( int ), n_samples, fp_rra ); fclose } else { printf }            *)
WriteRra ==
  /\ pc = "fwrite"
  /\ IF io.wb_ok
       THEN /\ rra_file' = [k \in 1..io.written |-> int_tmp[k - 1]]
            /\ io' = io
       ELSE /\ Printf("merge_data: Cannot open for writing")
            /\ rra_file' = rra_file
  /\ pc' = "done"
  /\ UNCHANGED <<sub, csv_file, max_time, time_rra, time_csv, int_rra, int_csv,
                 int_tmp, window, oob, searchVars, datVars, pathVars, mainVars>>

MergeIdle ==
  /\ sub = [n_samples |-> 0, file_offset |-> 0, timestamp_0 |-> 0, timestamp_1 |-> 0]
  /\ csv_file = <<>> /\ rra_file = <<>> /\ max_time = NoCutoff
  /\ io = Io(TRUE, TRUE, 0, <<>>)
  /\ time_rra = Unset /\ time_csv = Unset /\ int_rra = Unset
  /\ int_csv = Unset /\ int_tmp = Unset /\ window = Unset

Next ==
  \/ CreateRraTime
  \/ ReadCsvTime
  \/ ReadRraFile
  \/ ReadCsvData
  \/ SortDataForRra
  \/ WriteRra

Spec == Init /\ [][Next]_vars

(* merge_data with a file system that can fail: the import file may not    *)
(* open, the destination file may be missing or short, may not open for    *)
(* writing, and fwrite may store fewer elements than asked                 *)
MaxIoRows == 1

InitIO ==
  /\ pc = "merge_data"
  /\ sub \in {s \in Buffers : ValidBuffer(s)}
  /\ csv_file \in {f \in CsvFiles : Len(f) <= MaxIoRows}
  /\ rra_file \in {NULL} \cup {RraFile(k) : k \in 0..sub.n_samples}
  /\ io \in {Io(c, w, k, rra_file) : c \in BOOLEAN, w \in BOOLEAN, k \in 0..sub.n_samples}
  /\ max_time = NoCutoff
  /\ time_rra = Unset /\ time_csv = Unset /\ int_rra = Unset
  /\ int_csv = Unset /\ int_tmp = Unset
  /\ window = Unset
  /\ oob = {}
  /\ SearchIdle
  /\ DatIdle
  /\ PathIdle
  /\ MainIdle

SpecIO == InitIO /\ [][Next]_vars

----------------------------------------------------------------------------
(* read_dat_file: the metadata stream is a sequence of bytes, read through *)
(* fread at position fp.                                                   *)

N_SUBSETS == 4

MAGIC == <<104, 99, 98, 95, 114, 114, 100, 95, 48, 57, 48, 56, 50, 48, 49, 49, 65>>
PLACEHOLDER == <<112, 108, 97, 99, 101, 104, 111, 108, 100, 101, 114>>
INTEGER_T == <<105, 110, 116, 101, 103, 101, 114>>
DOUBLE_T == <<100, 111, 117, 98, 108, 101>>

Min(a, b) == IF a < b THEN a ELSE b

(* the int held by a 4-byte little-endian word of which the first k bytes  *)
(* come from the stream and the others are zero (calloc): two's complement *)
Byte(stream, pos, n, k) == IF n <= k THEN stream[pos + n] ELSE 0

le_value(stream, pos, k) ==
  LET b4 == Byte(stream, pos, 4, k)
  IN  Byte(stream, pos, 1, k) + 256 * Byte(stream, pos, 2, k)
      + 65536 * Byte(stream, pos, 3, k)
      + 16777216 * (IF b4 >= 128 THEN b4 - 256 ELSE b4)

(* fread( &x, sizeof( int ), 1, fp ): the item count, the int and the new fp *)
fread_int(stream, pos) ==
  LET k == Min(4, Len(stream) - pos)
  IN  [cnt |-> IF k = 4 THEN 1 ELSE 0,
       val |-> le_value(stream, pos, k),
       pos |-> pos + k]

(* fread( buf, 1, len, fp ) into a block calloc'ed for len bytes *)
fread_bytes(stream, pos, len) ==
  LET k == IF len < 0 THEN 0 ELSE Min(len, Len(stream) - pos)
  IN  [cnt |-> k,
       val |-> [i \in 1..(IF len < 0 THEN 0 ELSE len) |->
                  IF i <= k THEN stream[pos + i] ELSE 0],
       pos |-> pos + k]

(* a length-prefixed string of the header: the length, then the bytes *)
fread_lstr(stream, pos) ==
  LET l == fread_int(stream, pos)
      b == fread_bytes(stream, l.pos, l.val)
  IN  [len |-> l.val, val |-> b.val, pos |-> b.pos]

(* a length-prefixed string of a subset: the block is only allocated when  *)
(* the length was read ( if ( cnt2 ) ... = calloc( len ) )                 *)
fread_lstr_cnt(stream, pos) ==
  LET l == fread_int(stream, pos)
      b == fread_bytes(stream, l.pos, l.val)
  IN  [len |-> l.val,
       val |-> IF l.cnt = 1 THEN b.val ELSE NULL,
       cnt |-> l.cnt + b.cnt,
       pos |-> b.pos]

(* strcmp( buf, lit ) is 0 for a block of Len(buf) bytes that holds no     *)
(* terminator of its own: nul says whether the byte after the block is 0   *)
StrEq(buf, lit, nul) ==
  LET zeros == {i \in 1..Len(buf) : buf[i] = 0}
      z == IF zeros = {} THEN 0 ELSE CHOOSE i \in zeros : \A k \in zeros : i <= k
  IN  IF z > 0 THEN SubSeq(buf, 1, z - 1) = lit ELSE nul /\ buf = lit

(* strcmp( buf, lit ) reads the byte after the block: the block holds no   *)
(* zero and agrees with lit over its whole length                          *)
StrOver(buf, lit) ==
  /\ \A k \in 1..Len(buf) : buf[k] # 0
  /\ Len(buf) <= Len(lit)
  /\ buf = SubSeq(lit, 1, Len(buf))

ZERO8 == <<0, 0, 0, 0, 0, 0, 0, 0>>

(* calloc( 1, sizeof( dat_sub_s ) ) *)
NewSubset ==
  [unk_0 |-> 0, unk_1 |-> 0, unk_2 |-> 0, value |-> ZERO8, divider |-> ZERO8,
   timestamp_0 |-> 0, timestamp_1 |-> 0, minSamplesPerBin |-> 0,
   binL_len |-> 0, binLength |-> NULL, file_offset |-> 0, n_samples |-> 0,
   unk_3 |-> 0, int_len |-> 0, interval |-> NULL, cons_len |-> 0,
   consolidator |-> NULL, next |-> -1]

(* calloc( 1, sizeof( dat_s ) ) *)
NewData ==
  [magic |-> <<>>, devUuid_len |-> 0, deviceUuid |-> NULL, devVar_len |-> 0,
   deviceVar |-> NULL, devSvc_len |-> 0, deviceSvc |-> NULL, sampleT_len |-> 0,
   sampleType |-> NULL, n_sets |-> 0, subset |-> <<>>]

(* the header: magic, then the four strings when the magic fits *)
read_header(stream) ==
  LET m  == fread_bytes(stream, 0, 17)
      u  == fread_lstr(stream, m.pos)
      v  == fread_lstr(stream, u.pos)
      sv == fread_lstr(stream, v.pos)
      t  == fread_lstr(stream, sv.pos)
  IN  IF m.val = MAGIC
        THEN [data |-> [NewData EXCEPT !.magic = m.val,
                          !.devUuid_len = u.len, !.deviceUuid = u.val,
                          !.devVar_len = v.len, !.deviceVar = v.val,
                          !.devSvc_len = sv.len, !.deviceSvc = sv.val,
                          !.sampleT_len = t.len, !.sampleType = t.val],
              pos |-> t.pos, ok |-> TRUE]
        ELSE [data |-> [NewData EXCEPT !.magic = m.val], pos |-> m.pos, ok |-> FALSE]

(* one subset record: the fields read, the count cnt and the new fp *)
read_subset(stream, pos, is_int) ==
  LET u0 == fread_int(stream, pos)
      u1 == fread_int(stream, u0.pos)
      u2 == fread_int(stream, u1.pos)
      dv == fread_bytes(stream, pos, 8)
      dd == fread_bytes(stream, dv.pos, 8)
      p0 == IF is_int THEN u2.pos ELSE dd.pos
      t0 == fread_int(stream, p0)
      t1 == fread_int(stream, t0.pos)
      ms == fread_int(stream, t1.pos)
      bl == fread_lstr_cnt(stream, ms.pos)
      fo == fread_int(stream, bl.pos)
      ns == fread_int(stream, fo.pos)
      u3 == fread_int(stream, ns.pos)
      il == fread_lstr_cnt(stream, u3.pos)
      cl == fread_lstr_cnt(stream, il.pos)
  IN  [sub |-> [unk_0 |-> IF is_int THEN u0.val ELSE 0,
                unk_1 |-> IF is_int THEN u1.val ELSE 0,
                unk_2 |-> IF is_int THEN u2.val ELSE 0,
                value |-> IF is_int THEN ZERO8 ELSE dv.val,
                divider |-> IF is_int THEN ZERO8 ELSE dd.val,
                timestamp_0 |-> t0.val, timestamp_1 |-> t1.val,
                minSamplesPerBin |-> ms.val,
                binL_len |-> bl.len, binLength |-> bl.val,
                file_offset |-> fo.val, n_samples |-> ns.val, unk_3 |-> u3.val,
                int_len |-> il.len, interval |-> il.val,
                cons_len |-> cl.len, consolidator |-> cl.val,
                next |-> -1],
       cnt |-> t0.cnt + t1.cnt + ms.cnt + bl.cnt + fo.cnt + ns.cnt + u3.cnt
               + il.cnt + cl.cnt,
       pos |-> cl.pos]

(* if ( cnt < ( cons_len + int_len + binL_len + 9 ) ) *)
corrupt(r) == r.cnt < r.sub.cons_len + r.sub.int_len + r.sub.binL_len + 9

----------------------------------------------------------------------------
(* The metadata streams of the model: a header and MaxRecords subset       *)
(* records, cut after any number of bytes                                  *)

MaxRecords == 5
MaxFiles == 2

RECURSIVE enc_bytes(_, _)
enc_bytes(u, k) == IF k = 0 THEN <<>> ELSE <<u % 256>> \o enc_bytes(u \div 256, k - 1)

enc_int(v) == enc_bytes(v, 4)
enc_lstr(str) == enc_int(Len(str)) \o str

enc_header(magic, uuid, type) ==
  magic \o enc_lstr(uuid) \o enc_lstr(<<118>>) \o enc_lstr(<<115>>) \o enc_lstr(type)

(* the k-th subset record of a stream, as field values *)
Rec(k, is_int) ==
  [unk_0 |-> IF is_int THEN k ELSE 0,
   unk_1 |-> IF is_int THEN 2 * k ELSE 0,
   unk_2 |-> IF is_int THEN 3 * k ELSE 0,
   value |-> IF is_int THEN ZERO8 ELSE <<k, 0, 0, 0, 0, 0, 240, 63>>,
   divider |-> IF is_int THEN ZERO8 ELSE <<0, 0, 0, 0, 0, k, 143, 64>>,
   timestamp_0 |-> 70000 * k, timestamp_1 |-> 70000 * k + 300,
   minSamplesPerBin |-> k,
   binL_len |-> 1, binLength |-> <<48 + k>>,
   file_offset |-> k - 1, n_samples |-> 255 + k, unk_3 |-> -1,
   int_len |-> 2, interval |-> <<48 + k, 109>>,
   cons_len |-> 1, consolidator |-> <<97>>,
   next |-> -1]

enc_subset(r, is_int) ==
  (IF is_int THEN enc_int(r.unk_0) \o enc_int(r.unk_1) \o enc_int(r.unk_2)
             ELSE r.value \o r.divider)
  \o enc_int(r.timestamp_0) \o enc_int(r.timestamp_1) \o enc_int(r.minSamplesPerBin)
  \o enc_lstr(r.binLength)
  \o enc_int(r.file_offset) \o enc_int(r.n_samples) \o enc_int(r.unk_3)
  \o enc_lstr(r.interval) \o enc_lstr(r.consolidator)

RECURSIVE enc_subsets(_, _)
enc_subsets(k, is_int) ==
  IF k = 0 THEN <<>> ELSE enc_subsets(k - 1, is_int) \o enc_subset(Rec(k, is_int), is_int)

FullStream(magic, uuid, is_int) ==
  enc_header(magic, uuid, IF is_int THEN INTEGER_T ELSE DOUBLE_T)
  \o enc_subsets(MaxRecords, is_int)

BADMAGIC == [MAGIC EXCEPT ![17] = 66]
UUID == <<117, 49>>

(* a .dat file of the directory: its bytes, what they were cut from, and   *)
(* what the environment answers: nul, whether the byte after a calloc'ed   *)
(* block is zero; name, whether get_device_name finds the device; csv,     *)
(* whether the import file of its buffers opens                            *)
DatFile(magic, uuid, is_int, cut, nul, name, csv) ==
  [stream |-> SubSeq(FullStream(magic, uuid, is_int), 1, cut),
   magic |-> magic, uuid |-> uuid, is_int |-> is_int, cut |-> cut,
   nul |-> nul, name |-> name, csv |-> csv]

HdrLen(f) == Len(enc_header(f.magic, f.uuid, IF f.is_int THEN INTEGER_T ELSE DOUBLE_T))
RecLen(f) == Len(enc_subset(Rec(1, f.is_int), f.is_int))

AllFiles ==
  UNION {{DatFile(MAGIC, u, t, c, z, TRUE, TRUE) :
            z \in BOOLEAN, c \in 0..Len(FullStream(MAGIC, u, t))} :
         u \in {UUID, PLACEHOLDER}, t \in BOOLEAN}

ProtoFiles ==
  UNION {{DatFile(m, u, TRUE, HdrLen([magic |-> MAGIC, uuid |-> u, is_int |-> TRUE])
                                + k * RecLen([is_int |-> TRUE]), TRUE, nm, cs) :
            m \in {MAGIC, BADMAGIC}, k \in {0, 2}, nm \in BOOLEAN, cs \in BOOLEAN} :
         u \in {UUID, PLACEHOLDER}}

----------------------------------------------------------------------------
(* inject_data and read_dat_file, one step per loop iteration              *)

DatStart ==
  /\ pc = "readdir" /\ fidx = 0 /\ data = Unset /\ fp = 0 /\ dat_j = 0 /\ set_i = 0
  /\ diag = <<>> /\ merged = <<>> /\ oob = {}

File == dir[fidx]

Say(msg) == diag' = Append(diag, <<fidx, msg>>)

(* while ( ( entry_n = readdir( dir_new ) ) != NULL ) *)
ReadDir ==
  /\ pc = "readdir"
  /\ IF fidx < Len(dir)
       THEN fidx' = fidx + 1 /\ pc' = "read_dat_file"
       ELSE fidx' = fidx /\ pc' = "exit"
  /\ UNCHANGED <<dir, data, fp, dat_j, set_i, diag, merged, oob, mergeVars, searchVars, pathVars, mainVars>>

(* read_dat_file up to the do loop *)
ReadHeader ==
  /\ pc = "read_dat_file"
  /\ LET h == read_header(File.stream) IN
       /\ data' = h.data
       /\ fp' = h.pos
       /\ IF h.ok THEN pc' = "subsets" /\ diag' = diag
                  ELSE pc' = "returned" /\ Say("Bad magic number")
  /\ dat_j' = 0
  /\ UNCHANGED <<dir, fidx, set_i, merged, oob, mergeVars, searchVars, pathVars, mainVars>>

(* one iteration of do { ... } while ( done == 0 ) *)
ReadSubset ==
  /\ pc = "subsets"
  /\ LET is_int == StrEq(data.sampleType, INTEGER_T, File.nul)
         r == read_subset(File.stream, fp, is_int)
         \* data->subset[j] = calloc(...); n_sets = j + 1; subset[j-1]->next = subset[j]
         linked == IF dat_j > 0
                     THEN [data.subset EXCEPT ![dat_j] = [@ EXCEPT !.next = dat_j]]
                     ELSE data.subset
         stored == r.sub
         over_uuid == IF StrOver(data.deviceUuid, PLACEHOLDER)
                        THEN {"read_dat_file:strcmp(deviceUuid)"} ELSE {}
         over_type == IF StrOver(data.sampleType, INTEGER_T)
                        THEN {"read_dat_file:strcmp(sampleType)"} ELSE {}
     IN
       IF StrEq(data.deviceUuid, PLACEHOLDER, File.nul)
         THEN /\ pc' = "returned"
              /\ oob' = oob \cup over_uuid
              /\ UNCHANGED <<data, fp, dat_j, diag>>
         ELSE
           \/ \* the subset is read; a store at subset[N_SUBSETS] or beyond lands
              \* outside the array
              /\ oob' = oob \cup over_uuid \cup over_type
                            \cup (IF dat_j >= N_SUBSETS THEN {"read_dat_file:subset[j]"} ELSE {})
                            \cup (IF corrupt(r) /\ dat_j = 0 THEN {"read_dat_file:subset[-1]"} ELSE {})
              /\ fp' = r.pos
              /\ IF corrupt(r)
                   THEN /\ Say("dat file is partly corrupted, continuing ...")
                        /\ data' = [data EXCEPT
                                      !.subset = IF dat_j > 0
                                                   THEN [Append(linked, stored) EXCEPT ![dat_j] = [@ EXCEPT !.next = -1]]
                                                   ELSE Append(linked, stored),
                                      !.n_sets = dat_j]
                        /\ dat_j' = dat_j
                        /\ pc' = "returned"
                   ELSE /\ diag' = diag
                        /\ data' = [data EXCEPT !.subset = Append(linked, stored),
                                                !.n_sets = dat_j + 1]
                        /\ dat_j' = dat_j + 1
                        /\ pc' = IF r.pos < Len(File.stream) THEN "subsets" ELSE "returned"
           \/ \* the out-of-bounds store stops the process
              /\ dat_j >= N_SUBSETS \/ (corrupt(r) /\ dat_j = 0)
              /\ oob' = oob \cup over_uuid \cup over_type
                            \cup (IF dat_j >= N_SUBSETS THEN {"read_dat_file:subset[j]"}
                                                       ELSE {"read_dat_file:subset[-1]"})
              /\ pc' = "crash:read_dat_file"
              /\ UNCHANGED <<data, fp, dat_j, diag>>
  /\ UNCHANGED <<dir, fidx, set_i, merged, mergeVars, searchVars, pathVars, mainVars>>

(* inject_data after read_dat_file: the placeholder test, get_device_name, *)
(* print_data                                                              *)
CheckPlaceholder ==
  /\ pc = "returned"
  /\ \/ \* strcmp( data->deviceUuid, "placeholder" ) != 0
        /\ data.deviceUuid # NULL
        /\ ~StrEq(data.deviceUuid, PLACEHOLDER, File.nul)
        /\ Len(data.subset) > 0
        /\ pc' = "merge" /\ diag' = diag /\ oob' = oob
     \/ \* print_data reads data->subset[0], which is NULL
        /\ data.deviceUuid # NULL
        /\ ~StrEq(data.deviceUuid, PLACEHOLDER, File.nul)
        /\ Len(data.subset) = 0
        /\ pc' \in {"merge", "crash"} /\ diag' = diag
        /\ oob' = oob \cup {"print_data:subset[0]=NULL"}
     \/ /\ data.deviceUuid # NULL
        /\ StrEq(data.deviceUuid, PLACEHOLDER, File.nul)
        /\ Say("Corresponding database(s) not yet initialised, continuing ...")
        /\ pc' = "free" /\ oob' = oob
     \/ \* strcmp on the NULL deviceUuid left by a bad magic number
        /\ data.deviceUuid = NULL
        /\ oob' = oob \cup {"inject_data:strcmp(NULL)"}
        /\ \/ pc' = "crash" /\ diag' = diag
           \/ pc' = "merge" /\ diag' = diag
           \/ /\ pc' = "free"
              /\ Say("Corresponding database(s) not yet initialised, continuing ...")
  /\ set_i' = 0
  /\ UNCHANGED <<dir, fidx, data, fp, dat_j, merged, mergeVars, searchVars, pathVars, mainVars>>

(* for ( i = 0; i < data->n_sets; i++ ): get_csv_path, get_rra_path,       *)
(* merge_data                                                              *)
MergeSubset ==
  /\ pc = "merge"
  /\ IF set_i < data.n_sets
       THEN \/ \* the device has a name: merge_data runs, and merges when the
               \* import file opens
               /\ File.name
               /\ merged' = Append(merged, <<fidx, set_i, File.csv>>)
               /\ set_i' = set_i + 1 /\ pc' = "merge" /\ oob' = oob
            \/ \* get_csv_path: strncmp( data->rrd_device_name, ... ) on NULL
               /\ ~File.name
               /\ oob' = oob \cup {"get_csv_path:strncmp(NULL)"}
               /\ \/ pc' = "crash" /\ UNCHANGED <<merged, set_i>>
                  \/ /\ merged' = Append(merged, <<fidx, set_i, FALSE>>)
                     /\ set_i' = set_i + 1 /\ pc' = "merge"
       ELSE pc' = "free" /\ UNCHANGED <<merged, set_i, oob>>
  /\ UNCHANGED <<dir, fidx, data, fp, dat_j, diag, mergeVars, searchVars, pathVars, mainVars>>

(* free_dat_s( data ) *)
FreeDat ==
  /\ pc = "free"
  /\ pc' = "readdir"
  /\ data' = Unset
  /\ UNCHANGED <<dir, fidx, fp, dat_j, set_i, diag, merged, oob, mergeVars, searchVars, pathVars, mainVars>>

NextDat ==
  \/ ReadDir
  \/ ReadHeader
  \/ ReadSubset
  \/ CheckPlaceholder
  \/ MergeSubset
  \/ FreeDat

(* the directories of the model: one .dat file with any stream, or up to   *)
(* MaxFiles files of ProtoFiles                                            *)
Directories ==
  {<<f>> : f \in AllFiles} \cup UNION {[1..k -> ProtoFiles] : k \in 1..MaxFiles}

InitDat ==
  /\ dir \in Directories
  /\ DatStart /\ MergeIdle /\ SearchIdle /\ PathIdle /\ MainIdle

SpecDat == InitDat /\ [][NextDat]_vars

----------------------------------------------------------------------------
(* search on its own: every sorted-and-rotated array without duplicates,   *)
(* searched over its full index range                                      *)

SortedSeq(S) ==
  CHOOSE f \in [1..Cardinality(S) -> S] :
    \A a, b \in 1..Cardinality(S) : a < b => f[a] < f[b]

Rotate(S, r) ==
  LET k == Cardinality(S) IN [i \in 0..(k - 1) |-> SortedSeq(S)[((i + r) % k) + 1]]

RotatedArrays ==
  {Rotate(S, r) : <<S, r>> \in {<<S, r>> \in (SUBSET SearchVals) \X (0..MaxSize) :
                                  /\ Cardinality(S) <= MaxSize
                                  /\ r < Cardinality(S) \/ r = 0}}

SearchKeys == SearchVals \cup {0, 6}

InitSearch ==
  /\ pc = "search"
  /\ s_arr \in RotatedArrays
  /\ s_key \in SearchKeys
  /\ s_res = -2
  /\ oob = {}
  /\ MergeIdle
  /\ DatIdle
  /\ PathIdle
  /\ MainIdle

(* index = search( arr, 0, size - 1, key ) *)
Search ==
  /\ pc = "search"
  /\ s_res' = search(s_arr, 0, Cardinality(DOMAIN s_arr) - 1, s_key)
  /\ pc' = "searched"
  /\ UNCHANGED <<s_arr, s_key, oob, mergeVars, datVars, pathVars, mainVars>>

NextSearch == Search

SpecSearch == InitSearch /\ [][NextSearch]_vars

----------------------------------------------------------------------------
(* get_csv_path and get_rra_path on their own: every device with 0 to      *)
(* N_SUBSETS subsets, asked for every index of PathIndices                 *)

MaxIndex == 5

PathIndices == (-2)..MaxIndex

THERMSTAT == <<116, 104, 101, 114, 109, 115, 116, 97, 116>>
CSV_EXT == <<46, 99, 115, 118>>
RRA_EXT == <<46, 114, 114, 97>>
CSV_DIR == <<99, 47>>
RRA_LOC == <<114, 47>>

(* what %s prints of a block of calloc( len ) bytes: up to its first zero  *)
(* byte, and past the block when it holds none and the next byte is not    *)
(* zero (nul tells); a null pointer prints as a stray byte                 *)
CStr(buf, nul) ==
  LET z == {k \in 1..Len(buf) : buf[k] = 0}
  IN  IF buf = NULL THEN <<63>>
      ELSE IF z # {} THEN SubSeq(buf, 1, (CHOOSE k \in z : \A m \in z : k <= m) - 1)
      ELSE IF nul THEN buf
      ELSE buf \o <<63>>

(* data->subset[k], and a zeroed descriptor when k is outside the array *)
SubsetAt(d, k) == IF k + 1 \in DOMAIN d.subset THEN d.subset[k + 1] ELSE NewSubset

InRange_mut(d, subset) == subset >= 0 /\ subset <= d.n_sets

(* ( subset >= 0 ) & ( subset < data->n_sets ) *)
InRange(d, subset) == subset >= 0 /\ subset < d.n_sets

(* strncmp( data->rrd_device_name, "thermstat", 9 ) == 0 *)
IsThermstat(name) == Len(name) >= 9 /\ SubSeq(name, 1, 9) = THERMSTAT

(* the path, or NULL; the indices of data->subset read; the message.  The  *)
(* test data->rrd_device_name != "" compares the pointer with the address  *)
(* of a literal, which no device name has: it always passes.               *)
get_csv_path(csv_dir, d, subset, nul) ==
  IF InRange(d, subset)
    THEN LET csv_name_1 == CStr(d.deviceVar, nul)
             csv_name_2 == CStr(SubsetAt(d, subset).interval, nul)
             csv_name   == IF IsThermstat(d.rrd_device_name)
                             THEN d.rrd_device_name \o <<95>> \o csv_name_2 \o CSV_EXT
                             ELSE d.rrd_device_name \o <<95>> \o csv_name_1 \o <<95>>
                                    \o csv_name_2 \o CSV_EXT
         IN  [path |-> csv_dir \o csv_name, reads |-> {subset}, msg |-> <<>>]
    ELSE [path |-> NULL, reads |-> {},
          msg |-> <<"transfer-logs: get_csv_path: subset out of range">>]

get_rra_path(d, uuid, loc, subset, nul) ==
  IF InRange(d, subset)
    THEN LET rra_name_2 == CStr(SubsetAt(d, subset).interval, nul)
         IN  [path |-> loc \o uuid \o <<45>> \o rra_name_2 \o RRA_EXT,
              reads |-> {subset}, msg |-> <<>>]
    ELSE [path |-> NULL, reads |-> {}, msg |-> <<"get_rra_path: subset out of range">>]

(* the names get_device_name can answer: a thermostat, another device, or  *)
(* NULL when the uuid is not in the configuration                          *)
DeviceNames == {THERMSTAT \o <<95, 116>>, <<101, 108>>, NULL}

(* a decoded device of n subsets, named by get_device_name *)
PathData(n, is_int, name) ==
  [rrd_device_name |-> name, magic |-> MAGIC,
   devUuid_len |-> Len(UUID), deviceUuid |-> UUID,
   devVar_len |-> 1, deviceVar |-> <<118>>,
   devSvc_len |-> 1, deviceSvc |-> <<115>>,
   sampleT_len |-> 1, sampleType |-> <<116>>,
   n_sets |-> n,
   subset |-> [k \in 1..n |->
                 [NewSubset EXCEPT !.int_len = Len(Rec(k, is_int).interval),
                                   !.interval = Rec(k, is_int).interval,
                                   !.next = IF k < n THEN k ELSE -1]]]

InitPath ==
  /\ pc = "get_paths"
  /\ \E n \in 0..N_SUBSETS, is_int \in BOOLEAN, name \in DeviceNames :
       data = PathData(n, is_int, name)
  /\ set_i \in PathIndices
  /\ paths \in {[nul |-> b, csv |-> Unset, rra |-> Unset] : b \in BOOLEAN}
  /\ dir = <<>> /\ fidx = 0 /\ fp = 0 /\ dat_j = 0 /\ diag = <<>> /\ merged = <<>>
  /\ oob = {}
  /\ MergeIdle
  /\ SearchIdle
  /\ MainIdle

(* csv_path = get_csv_path( csv_dir, data, i ) *)
GetCsvPath ==
  /\ pc = "get_paths"
  /\ IF InRange(data, set_i) /\ data.rrd_device_name = NULL
       THEN \* strncmp on the NULL name: the process stops, or goes on with
            \* the bytes found there
            /\ oob' = oob \cup {"get_csv_path:strncmp(NULL)"}
            /\ \/ pc' = "crash" /\ paths' = paths
               \/ /\ pc' = "get_rra_path"
                  /\ paths' = [paths EXCEPT !.csv =
                       get_csv_path(CSV_DIR, [data EXCEPT !.rrd_device_name = <<63>>],
                                    set_i, paths.nul)]
       ELSE /\ paths' = [paths EXCEPT !.csv = get_csv_path(CSV_DIR, data, set_i, paths.nul)]
            /\ pc' = "get_rra_path" /\ oob' = oob
  /\ UNCHANGED <<dir, fidx, data, fp, dat_j, set_i, diag, merged, mergeVars, searchVars,
                 mainVars>>

(* rra_path = get_rra_path( data, uuid, rra_location, i ) *)
GetRraPath ==
  /\ pc = "get_rra_path"
  /\ paths' = [paths EXCEPT !.rra = get_rra_path(data, UUID, RRA_LOC, set_i, paths.nul)]
  /\ pc' = "paths_done"
  /\ UNCHANGED <<dir, fidx, data, fp, dat_j, set_i, diag, merged, oob, mergeVars,
                 searchVars, mainVars>>

NextPath == GetCsvPath \/ GetRraPath

SpecPath == InitPath /\ [][NextPath]_vars

----------------------------------------------------------------------------
(* main: the option loop, one step per iteration, and the processing steps *)

MaxArgs == 3

E_DATABASE_DIR_NOT_FOUND == 255
E_INSUFFICIENT_CL_ARGS == 254
E_BAD_DL_URL == 253
E_INVALID_DATA_DIR == 252
E_INVALID_END_DATE == 251
E_NO_DAT_FILES_FOUND == 250
E_CANNOT_OPEN_DIR == 249
EXIT_FAILURE == -1

EXPORTS_LOCATION == <<"/var/volatile/tmp/exports/">>

(* what the environment answers: the directories opendir opens, the hosts  *)
(* test_host reaches, the dates strptime accepts                           *)
ValidDirs == {"/up"}
ValidHosts == {"10.0.0.1"}
ValidDates == {"2020-01-01"}

(* an option with the words that follow it on the command line *)
OptionWords ==
  {<<"-h">>, <<"-b">>, <<"-e">>, <<"-r">>,
   <<"-u">>, <<"-u", "/up">>, <<"-u", "/nodir">>,
   <<"-L">>, <<"-L", "2020-01-01">>, <<"-L", "never">>,
   <<"-d">>, <<"-d", "10.0.0.1">>, <<"-d", "nohost">>}

RECURSIVE ArgLists(_)
ArgLists(n) ==
  IF n = 0 THEN {<<>>}
  ELSE LET p == ArgLists(n - 1) IN p \cup {a \o w : a \in p, w \in OptionWords}

(* argc, argv[k], and argv[k] != NULL *)
argc == Len(argv)
Arg(k) == argv[k + 1]
HasArg(k) == k < argc

(* the locals of main before the loop; ret is <<>> until main returns *)
NewOpt ==
  [dl_dir |-> <<>>, dl_url |-> <<>>, max_date |-> <<>>,
   exp_flag |-> 0, rra_flag |-> 0, dl_flag |-> 0, dir_flag |-> 0, dat_flag |-> 0,
   backup_flag |-> 0, ret |-> <<>>]

Return(s, code) == [s EXCEPT !.o.ret = <<code>>]

Running(s) == s.o.ret = <<>>

(* if ( !strcmp( "-h", argv[i] ) ) *)
opt_h(s) ==
  IF Running(s) /\ Arg(s.i) = "-h" THEN Return(s, 0) ELSE s

(* if( !strcmp( "-d", argv[i] ) ) *)
opt_d(s) ==
  IF ~Running(s) \/ Arg(s.i) # "-d" THEN s
  ELSE IF HasArg(s.i + 1)
    THEN IF Arg(s.i + 1) \notin ValidHosts
           THEN Return([s EXCEPT !.o.dl_url = <<"http://", Arg(s.i + 1)>>], E_BAD_DL_URL)
           ELSE [s EXCEPT !.o.dl_url = <<"http://", Arg(s.i + 1), "/export.zip">>,
                          !.o.exp_flag = 1, !.o.dl_flag = 1, !.o.rra_flag = 0,
                          !.i = s.i + 1]
    ELSE Return([s EXCEPT !.o.dl_url = <<>>], E_INSUFFICIENT_CL_ARGS)

(* dl_dir = calloc( ... ); sprintf( dl_dir, EXPORTS_LOCATION ), in every   *)
(* iteration of the loop                                                   *)
default_dl_dir(s) ==
  IF Running(s) THEN [s EXCEPT !.o.dl_dir = EXPORTS_LOCATION] ELSE s

(* if( !strcmp( "-u", argv[i] ) ) *)
opt_u(s) ==
  IF ~Running(s) \/ Arg(s.i) # "-u" THEN s
  ELSE IF HasArg(s.i + 1)
    THEN IF Arg(s.i + 1) \in ValidDirs
           THEN [s EXCEPT !.o.dl_dir = <<Arg(s.i + 1), "/">>, !.o.dir_flag = 1,
                          !.o.dl_flag = 0, !.i = s.i + 1]
           ELSE Return([s EXCEPT !.o.dl_dir = <<Arg(s.i + 1)>>], E_INVALID_DATA_DIR)
    ELSE [s EXCEPT !.o.dl_flag = 0]

(* if ( !strcmp( "-L", argv[i] ) ) *)
opt_L(s) ==
  IF ~Running(s) \/ Arg(s.i) # "-L" THEN s
  ELSE IF HasArg(s.i + 1)
    THEN IF Arg(s.i + 1) \notin ValidDates
           THEN Return([s EXCEPT !.o.max_date = <<Arg(s.i + 1)>>], E_INVALID_END_DATE)
           ELSE [s EXCEPT !.o.max_date = <<Arg(s.i + 1)>>, !.o.dat_flag = 1,
                          !.i = s.i + 1]
    ELSE [s EXCEPT !.o.max_date = <<>>]

(* if( !strcmp( "-e", argv[i] ) ) *)
opt_e(s) ==
  IF Running(s) /\ Arg(s.i) = "-e"
    THEN [s EXCEPT !.o.exp_flag = 1, !.o.rra_flag = 0] ELSE s

(* if( !strcmp( "-b", argv[i] ) ) *)
opt_b(s) ==
  IF Running(s) /\ Arg(s.i) = "-b" THEN [s EXCEPT !.o.backup_flag = 1] ELSE s

opt_r_mut(s) ==
  IF Running(s) /\ Arg(s.i) = "-r" THEN [s EXCEPT !.o.rra_flag = 1] ELSE s

(* if( !strcmp( "-r", argv[i] ) ) *)
opt_r(s) ==
  IF Running(s) /\ Arg(s.i) = "-r"
    THEN [s EXCEPT !.o.exp_flag = 0, !.o.rra_flag = 1] ELSE s

(* the body of the option loop, for i and the locals o *)
main_arg(o, i) ==
  opt_r(opt_b(opt_e(opt_L(opt_u(default_dl_dir(opt_d(opt_h([o |-> o, i |-> i]))))))))

(* !, | and & on the flags, which are 0 or 1 *)
LNot(a) == IF a = 0 THEN 1 ELSE 0
BitOr(a, b) == IF a = 1 \/ b = 1 THEN 1 ELSE 0
BitAnd(a, b) == IF a = 1 /\ b = 1 THEN 1 ELSE 0

Call(fn, arg, max_date) == [fn |-> fn, arg |-> arg, max_date |-> max_date]

main_steps_mut(o, rra_location) ==
  LET import == IF BitAnd(o.dir_flag, o.rra_flag) = 1
                  THEN <<Call("read_pwrusage_and_merge", o.dl_dir, o.max_date)>>
                  ELSE <<Call("unzip_exports", o.dl_dir, <<>>)>>
      backup == IF o.backup_flag # 0
                  THEN <<Call("create_backups", rra_location, <<>>)>> ELSE <<>>
  IN  import \o backup \o <<Call("inject_data", o.dl_dir, o.max_date)>>

(* the steps main calls after the loop, in order, for the locals o and the *)
(* database directory found                                                *)
main_steps(o, rra_location) ==
  LET backup == IF o.backup_flag # 0
                  THEN <<Call("create_backups", rra_location, <<>>)>> ELSE <<>>
      import == IF BitAnd(o.dir_flag, o.rra_flag) = 1
                  THEN <<Call("read_pwrusage_and_merge", o.dl_dir, o.max_date)>>
                ELSE IF BitAnd(o.dir_flag, o.exp_flag) # 0
                  THEN <<Call("unzip_exports", o.dl_dir, <<>>)>>
                ELSE IF BitAnd(o.dl_flag, o.exp_flag) # 0
                  THEN <<Call("download_exports_and_unzip", o.dl_url, <<>>)>>
                ELSE <<Call("fprintf:Impossible error", <<>>, <<>>)>>
      rra_flag == IF o.dl_flag # 0 THEN 0 ELSE o.rra_flag
      convert == IF BitAnd(rra_flag, o.dir_flag) # 0
                   THEN <<Call("rra_to_csv", o.dl_dir, <<>>)>> ELSE <<>>
  IN  backup \o import \o convert
        \o <<Call("inject_data", o.dl_dir, o.max_date)>>

(* the steps that end the process themselves, and the status they end it with *)
ExitStatus(fn) ==
  CASE fn = "unzip_exports" -> <<EXIT_FAILURE>>
    [] fn = "download_exports_and_unzip" -> <<EXIT_FAILURE>>
    [] fn = "rra_to_csv" -> <<E_NO_DAT_FILES_FOUND>>
    [] fn = "inject_data" -> <<E_CANNOT_OPEN_DIR>>
    [] OTHER -> <<>>

RraLocations == {<<"/HCBv2/data/hcb_rrd/">>, <<"/qmf/var/hcb_rrd/">>}

InitMain ==
  /\ pc = "main"
  /\ argv \in {<<"transfer-logs">> \o a : a \in ArgLists(MaxArgs)}
  /\ argi = 0
  /\ opt = NewOpt
  /\ calls = <<>>
  /\ oob = {}
  /\ MergeIdle
  /\ SearchIdle
  /\ DatIdle
  /\ PathIdle

(* if ( argc < 2 ) { usage( argv[0] ); exit( 0 ); } *)
MainStart ==
  /\ pc = "main"
  /\ IF argc < 2
       THEN pc' = "main:returned" /\ opt' = [opt EXCEPT !.ret = <<0>>] /\ argi' = argi
       ELSE pc' = "main:args" /\ opt' = opt /\ argi' = 1
  /\ UNCHANGED <<argv, calls, oob, mergeVars, searchVars, datVars, pathVars>>

(* for ( i = 1; i < argc; i++ ) { ... } *)
ParseArg ==
  /\ pc = "main:args"
  /\ argi < argc
  /\ LET s == main_arg(opt, argi)
     IN  /\ opt' = s.o
         /\ IF Running(s)
              THEN argi' = s.i + 1 /\ pc' = "main:args"
              ELSE argi' = s.i /\ pc' = "main:returned"
  /\ UNCHANGED <<argv, calls, oob, mergeVars, searchVars, datVars, pathVars>>

(* the flag test, find_rra_databases and the processing steps *)
RunSteps ==
  /\ pc = "main:args"
  /\ argi >= argc
  /\ pc' = "main:returned"
  /\ IF BitOr(BitOr(LNot(BitOr(opt.exp_flag, opt.rra_flag)),
                    LNot(BitOr(opt.dl_flag, opt.dir_flag))),
              LNot(BitOr(opt.exp_flag, opt.dir_flag))) # 0
       THEN opt' = [opt EXCEPT !.ret = <<E_INSUFFICIENT_CL_ARGS>>] /\ calls' = calls
       ELSE \/ \* find_rra_databases() == NULL
               opt' = [opt EXCEPT !.ret = <<E_DATABASE_DIR_NOT_FOUND>>] /\ calls' = calls
            \/ \E loc \in RraLocations :
                 LET steps == main_steps(opt, loc)
                 IN  \/ calls' = steps /\ opt' = [opt EXCEPT !.ret = <<0>>]
                     \/ \* a step ends the process
                        \E k \in 1..Len(steps) :
                          /\ ExitStatus(steps[k].fn) # <<>>
                          /\ calls' = SubSeq(steps, 1, k)
                          /\ opt' = [opt EXCEPT !.ret = ExitStatus(steps[k].fn)]
  /\ UNCHANGED <<argv, argi, oob, mergeVars, searchVars, datVars, pathVars>>

NextMain == MainStart \/ ParseArg \/ RunSteps

SpecMain == InitMain /\ [][NextMain]_vars

----------------------------------------------------------------------------
(* write_data_to_csv on its own: the export of one buffer                  *)

(* a double is held as its count of ten-thousandths; NaN is the one value  *)
(* that is no number                                                       *)
NaN == -2147483647

isnan(x) == x = NaN

(* the values an archive file can hold per slot *)
ExportInts == {7, UNFILLED}
ExportReals == {NaN, 12345}

(* "%d" prints the int; "%.3lf" prints the double rounded to thousandths *)
PrintInt(v) == v
PrintReal(x) == (x + 5) \div 10

(* fread into the calloc'ed block: the file's values, zero where it ends *)
read_rra_values(file, n, zero) ==
  [j \in 0..(n - 1) |-> IF j + 1 <= Len(file) THEN file[j + 1] ELSE zero]

(* for ( j = 0; j < n_samples; j++ ) if ( value is not unfilled ) fprintf *)
RECURSIVE export_rows(_, _, _, _, _)
export_rows(trra, vals, is_int, j, n) ==
  IF j >= n THEN <<>>
  ELSE (IF is_int
          THEN IF vals[j] # UNFILLED
                 THEN <<[t |-> trra[j], v |-> PrintInt(vals[j])]>> ELSE <<>>
          ELSE IF ~isnan(vals[j])
                 THEN <<[t |-> trra[j], v |-> PrintReal(vals[j])]>> ELSE <<>>)
       \o export_rows(trra, vals, is_int, j + 1, n)

(* the device of the buffer: its sample type as decoded, without terminator *)
ExportData(is_int) ==
  [PathData(1, is_int, <<101, 108>>) EXCEPT
     !.sampleT_len = IF is_int THEN Len(INTEGER_T) ELSE Len(DOUBLE_T),
     !.sampleType = IF is_int THEN INTEGER_T ELSE DOUBLE_T]

(* the archive files of a buffer of n slots: none, or up to n values *)
ExportFiles(n, is_int) ==
  {NULL} \cup SeqsUpTo(IF is_int THEN ExportInts ELSE ExportReals, n)

InitExport ==
  /\ pc = "write_data_to_csv"
  /\ sub \in {s \in Buffers : ValidBuffer(s)}
  /\ \E is_int \in BOOLEAN :
       /\ data = ExportData(is_int)
       /\ rra_file \in ExportFiles(sub.n_samples, is_int)
  /\ paths \in {[nul |-> b, csv |-> Unset, rra |-> Unset] : b \in BOOLEAN}
  /\ csv_file = <<[t |-> 1, v |-> 1]>>
  /\ io \in {Io(c, TRUE, 0, rra_file) : c \in BOOLEAN}
  /\ max_time = NoCutoff
  /\ time_rra = Unset /\ time_csv = Unset /\ int_rra = Unset
  /\ int_csv = Unset /\ int_tmp = Unset /\ window = Unset
  /\ set_i = 0
  /\ dir = <<>> /\ fidx = 0 /\ fp = 0 /\ dat_j = 0 /\ diag = <<>> /\ merged = <<>>
  /\ oob = {}
  /\ SearchIdle
  /\ MainIdle

(* the archive file holds values of the type the device was written with *)
FileIsInt == data.sampleType = INTEGER_T

(* if ( fp_csv = fopen( csv_path, "w" ) ) { ... } else { printf }          *)
WriteDataToCsv ==
  /\ pc = "write_data_to_csv"
  /\ IF ~io.csv_ok
       THEN /\ Printf("write_data_to_csv: Cannot open file for writing")
            /\ pc' = "export_done"
            /\ UNCHANGED <<csv_file, time_rra, int_rra, oob>>
       ELSE LET n == sub.n_samples
                data_type == StrEq(data.sampleType, INTEGER_T, paths.nul)
                over == StrOver(data.sampleType, INTEGER_T)
                r == create_rra_time(sub)
                wild == {k \in 1..Len(r.writes) : r.writes[k] \notin 0..(n - 1)}
                seen == {"create_rra_time:time_rra[" \o ToString(r.writes[k]) \o "]" :
                           k \in wild}
                         \cup (IF over THEN {"write_data_to_csv:strcmp(sampleType)"}
                                       ELSE {})
            IN  /\ time_rra' = r.arr
                /\ io' = IF rra_file = NULL
                           THEN [io EXCEPT !.msgs =
                                   Append(@, "read_rra_file: Cannot open file for reading")]
                           ELSE io
                /\ \/ \* the rows are written and the file is closed
                      /\ rra_file # NULL
                      /\ \E vals \in IF data_type = FileIsInt
                                       THEN {read_rra_values(rra_file, n, 0)}
                                       ELSE [0..(n - 1) -> ExportReals] :
                           /\ int_rra' = vals
                           /\ csv_file' = export_rows(r.arr, vals, data_type, 0, n)
                      /\ oob' = oob \cup seen
                      /\ pc' = "export_done"
                   \/ \* read_rra_file returned NULL and there is no slot
                      /\ rra_file = NULL /\ n = 0
                      /\ int_rra' = NULL
                      /\ csv_file' = <<>>
                      /\ oob' = oob \cup seen
                      /\ pc' = "export_done"
                   \/ \* int_rra[j] through the null pointer: the process
                      \* stops with the file opened and empty
                      /\ rra_file = NULL /\ n > 0
                      /\ int_rra' = NULL
                      /\ csv_file' = <<>>
                      /\ oob' = oob \cup seen \cup {"write_data_to_csv:int_rra=NULL"}
                      /\ pc' = "crash"
                   \/ \* create_rra_time stored outside its block: free( time_rra )
                      \* can stop the process before fclose flushes the rows
                      /\ rra_file # NULL /\ wild # {}
                      /\ int_rra' = read_rra_values(rra_file, n, 0)
                      /\ csv_file' = <<>>
                      /\ oob' = oob \cup seen
                      /\ pc' = "crash"
  /\ UNCHANGED <<sub, rra_file, max_time, time_csv, int_csv, int_tmp, window,
                 searchVars, datVars, pathVars, mainVars>>

NextExport == WriteDataToCsv

SpecExport == InitExport /\ [][NextExport]_vars

----------------------------------------------------------------------------
(* Terms of the properties *)

N == sub.n_samples
FO == sub.file_offset
Interval == sub.timestamp_1 - sub.timestamp_0
Newest == sub.timestamp_1
Oldest == sub.timestamp_1 - (N - 1) * Interval

TimesDone == pc \in {"read_csv_time", "read_rra_file", "read_csv_data",
                     "sort_data_for_rra", "fwrite", "done"}
CsvDone == pc \in {"sort_data_for_rra", "fwrite", "done"}

(* the rows of the import file that pass the cutoff, in file order *)
Retained == LET Keep(r) == r.t <= max_time IN SelectSeq(csv_file, Keep)

(* a sequence of rows is sorted-and-rotated, without duplicates *)
SortedRotated(rows) ==
  LET k == Len(rows) IN
    k = 0 \/ \E r \in 0..(k - 1) :
      \A a \in 0..(k - 2) : rows[((a + r) % k) + 1].t < rows[((a + 1 + r) % k) + 1].t

(* the import rows whose timestamp is t, as indices of the import arrays *)
Matches(t) == {k \in 0..(Len(Retained) - 1) : Retained[k + 1].t = t}

(* the .dat file f has a valid header and a device id other than the       *)
(* placeholder, and is cut inside its (k+1)-th subset record               *)
TruncatedIn(f, k) ==
  /\ f.magic = MAGIC /\ f.uuid # PLACEHOLDER
  /\ f.cut > HdrLen(f) + k * RecLen(f)
  /\ f.cut < HdrLen(f) + (k + 1) * RecLen(f)

(* read_dat_file has returned the file's data, or the process has stopped *)
DecodeEnded == fidx >= 1 /\ pc \in {"returned", "crash:read_dat_file"}

CORRUPTED == "dat file is partly corrupted, continuing ..."

(* the messages printed for the k-th .dat file, in order *)
DiagOf(k) == LET Mine(d) == d[1] = k IN SelectSeq(diag, Mine)

----------------------------------------------------------------------------
(* C1: for every destination slot whose reconstructed timestamp lies in    *)
(* [oldest, newest], the output holds the import value with that timestamp *)
(* when the (sorted-and-rotated, at most n_samples rows long) import holds *)
(* one, and the destination value otherwise.                               *)
C1_MergePerSlot ==
  (pc = "done" /\ Len(Retained) <= N /\ SortedRotated(Retained)) =>
    \A i \in 0..(N - 1) :
      (time_rra[i] >= Oldest /\ time_rra[i] <= Newest) =>
        IF Matches(time_rra[i]) # {}
          THEN \E k \in Matches(time_rra[i]) : int_tmp[i] = Retained[k + 1].v
          ELSE int_tmp[i] = int_rra[i]

(* C2: the reconstructed array has timestamp_1 at slot file_offset, that   *)
(* is its maximum, and its minimum is at slot (file_offset+1) mod          *)
(* n_samples.                                                              *)
C2_NewestAtFileOffset ==
  (TimesDone /\ N >= 1 /\ FO < N) =>
    /\ time_rra[FO] = sub.timestamp_1
    /\ \A i \in 0..(N - 1) : time_rra[i] <= time_rra[FO]
    /\ \A i \in 0..(N - 1) : time_rra[(FO + 1) % N] <= time_rra[i]

(* C3: read from slot (file_offset+1) mod n_samples and wrapping, the      *)
(* reconstructed array rises in steps of exactly interval and ends at      *)
(* timestamp_1.                                                            *)
C3_RisingByInterval ==
  (TimesDone /\ N >= 1 /\ FO < N) =>
    \A k \in 0..(N - 1) :
      time_rra[(FO + 1 + k) % N] = sub.timestamp_1 - (N - 1 - k) * Interval

(* C4: on a duplicate-free sorted-and-rotated array searched over its full *)
(* range, search returns the index of the key when the key is present and  *)
(* -1 when it is absent.                                                   *)
C4_SearchCorrect ==
  pc = "searched" =>
    IF \E i \in DOMAIN s_arr : s_arr[i] = s_key
      THEN s_res \in DOMAIN s_arr /\ s_arr[s_res] = s_key
      ELSE s_res = -1

C4_Witness ==
  /\ pc = "searched"
  /\ Cardinality(DOMAIN s_arr) = MaxSize
  /\ s_arr[0] > s_arr[MaxSize - 1]
  /\ s_res = MaxSize - 1
  /\ s_arr[s_res] = s_key

(* C5: a stream with a valid header and a device id other than the         *)
(* placeholder, cut inside its (k+1)-th subset record with k >= 1, decodes *)
(* to exactly k subsets: n_sets = k, the next link of the k-th is null,    *)
(* the corruption message is printed once, and no further subset is read.  *)
C5_TruncatedRecord ==
  \A k \in 1..(MaxRecords - 1) :
    (DecodeEnded /\ TruncatedIn(File, k)) =>
      /\ pc = "returned"
      /\ data.n_sets = k
      /\ data.subset[k].next = -1
      /\ \A m \in 1..(k - 1) : data.subset[m].next = m
      /\ DiagOf(fidx) = <<<<fidx, CORRUPTED>>>>
      /\ dat_j = k

(* C6: the decoder yields at most N_SUBSETS subsets, does not go on        *)
(* reading after the N_SUBSETS-th complete record, and stores no subset at *)
(* an index >= N_SUBSETS of data->subset.                                  *)
C6_AtMostFourSubsets ==
  /\ data # Unset => data.n_sets <= N_SUBSETS /\ Len(data.subset) <= N_SUBSETS
  /\ pc = "subsets" => dat_j < N_SUBSETS
  /\ "read_dat_file:subset[j]" \notin oob

(* C7: a .dat file whose first 17 bytes are not the magic token yields no  *)
(* subsets, is reported as having a bad magic number, has no merge run for *)
(* it, and does not stop the loop over the .dat files.                     *)
C7_BadMagicSkipsFile ==
  \A k \in 1..fidx :
    dir[k].magic # MAGIC =>
      /\ (k = fidx /\ pc \notin {"read_dat_file", "readdir"}) =>
            /\ data.n_sets = 0 /\ data.subset = <<>>
            /\ pc # "crash"
      /\ (k < fidx \/ pc # "read_dat_file") =>
            DiagOf(k)[1] = <<k, "Bad magic number">>
      /\ \A m \in 1..Len(merged) : merged[m][1] # k

(* C8: an import without any timestamp in [oldest, newest] leaves the      *)
(* output equal to the destination values, slot for slot.                  *)
C8_MergeIdempotent ==
  (pc = "done" /\ \A k \in 1..Len(Retained) :
                    ~(Retained[k].t >= Oldest /\ Retained[k].t <= Newest)) =>
    int_tmp = int_rra

(* C9: the output has n_samples slots, each holding the destination value  *)
(* of the slot or the value of an import row whose timestamp is the slot's *)
(* reconstructed timestamp, and the input arrays are as they were loaded.  *)
C9_MergeFrame ==
  pc = "done" =>
    /\ DOMAIN int_tmp = 0..(N - 1)
    /\ \A i \in 0..(N - 1) :
         \/ int_tmp[i] = int_rra[i]
         \/ \E k \in Matches(time_rra[i]) : int_tmp[i] = Retained[k + 1].v
    /\ int_rra = read_rra_file(RraFile(N), sub)
    /\ time_csv = read_csv_time(csv_file, sub, max_time).arr
    /\ int_csv = read_csv_data(csv_file, sub, max_time).arr
    /\ time_rra = create_rra_time(sub).arr

(* C10: the import arrays hold exactly the rows with timestamp <= cutoff,  *)
(* from index 0 on, in file order, and nothing else.                       *)
C10_CutoffFilter ==
  CsvDone =>
    /\ \A k \in 1..Len(Retained) :
         /\ k - 1 \in DOMAIN time_csv /\ time_csv[k - 1] = Retained[k].t
         /\ k - 1 \in DOMAIN int_csv /\ int_csv[k - 1] = Retained[k].v
    /\ \A i \in DOMAIN time_csv : i >= Len(Retained) => time_csv[i] = 0 /\ int_csv[i] = 0

(* C11: when the decoded device id is "placeholder", read_dat_file stops   *)
(* right after the header with n_sets = 0, reads no subset record and      *)
(* prints no message.                                                      *)
C11_PlaceholderStops ==
  (DecodeEnded /\ data.deviceUuid = PLACEHOLDER) =>
    /\ pc = "returned"
    /\ data.n_sets = 0 /\ data.subset = <<>>
    /\ fp <= HdrLen(File)
    /\ DiagOf(fidx) = <<>>

(* the .dat file f is a valid header with a device id other than the       *)
(* placeholder, followed by exactly m complete subset records              *)
CompleteRecords(f, m) ==
  /\ f.magic = MAGIC /\ f.uuid # PLACEHOLDER
  /\ f.cut = HdrLen(f) + m * RecLen(f)

(* the fields of a subset that the stream encodes, without the link *)
Encoded(r) ==
  <<r.unk_0, r.unk_1, r.unk_2, r.value, r.divider, r.timestamp_0, r.timestamp_1,
    r.minSamplesPerBin, r.binL_len, r.binLength, r.file_offset, r.n_samples,
    r.unk_3, r.int_len, r.interval, r.cons_len, r.consolidator>>

(* C12: a stream of the magic token, the four header strings and 1 to 4    *)
(* complete subset records decodes to the encoded device id, variable      *)
(* name, service name and sample type, and per subset to the encoded       *)
(* fields, for the integer and for the double layout.                      *)
C12_DecoderRoundTrip ==
  \A m \in 1..N_SUBSETS :
    (DecodeEnded /\ CompleteRecords(File, m)) =>
      /\ pc = "returned"
      /\ data.deviceUuid = File.uuid
      /\ data.deviceVar = <<118>>
      /\ data.deviceSvc = <<115>>
      /\ data.sampleType = (IF File.is_int THEN INTEGER_T ELSE DOUBLE_T)
      /\ Len(data.subset) = m
      /\ \A k \in 1..m : Encoded(data.subset[k]) = Encoded(Rec(k, File.is_int))

(* C17: a stream with a valid header and a device id other than the        *)
(* placeholder whose first subset record is cut short, or that ends right  *)
(* after the header, decodes to n_sets = 0 with the corruption message,    *)
(* and no position before data->subset[0] is accessed.                     *)
C17_FirstRecordTruncated ==
  (DecodeEnded /\ File.magic = MAGIC /\ File.uuid # PLACEHOLDER
     /\ File.cut >= HdrLen(File) /\ File.cut < HdrLen(File) + RecLen(File)) =>
    /\ pc = "returned"
    /\ data.n_sets = 0
    /\ DiagOf(fidx) = <<<<fidx, CORRUPTED>>>>
    /\ "read_dat_file:subset[-1]" \notin oob

(* C18: a stream of a valid header with a device id other than the         *)
(* placeholder and exactly m complete subset records, 1 <= m <= 4, decodes *)
(* to m subsets in stream order, linked in that order, without a           *)
(* corruption message; the decoder goes on to the next record exactly      *)
(* while bytes remain.                                                     *)
C18_CleanEndOfStream ==
  \A m \in 1..N_SUBSETS :
    (fidx >= 1 /\ CompleteRecords(File, m)) =>
      /\ pc = "subsets" => dat_j < m /\ fp = HdrLen(File) + dat_j * RecLen(File)
      /\ DecodeEnded =>
            /\ pc = "returned"
            /\ data.n_sets = m /\ Len(data.subset) = m /\ dat_j = m
            /\ fp = Len(File.stream)
            /\ \A k \in 1..m :
                  /\ data.subset[k].timestamp_0 = Rec(k, File.is_int).timestamp_0
                  /\ data.subset[k].next = (IF k < m THEN k ELSE -1)
            /\ DiagOf(fidx) = <<>>

(* the destination file was missing, or held fewer than n_samples values,  *)
(* when merge_data was called with an import file that opens               *)
ShortPayload ==
  io.csv_ok /\ (io.rra0 = NULL \/ Len(io.rra0) < N)

Returned == pc \in {"done", "returned:merge_data"}

(* the destination file holds the n_samples values of the merged array *)
HoldsMerged ==
  /\ int_tmp # Unset \/ N = 0
  /\ rra_file # NULL
  /\ rra_file = [k \in 1..N |-> int_tmp[k - 1]]

(* C13: when the destination file is missing or holds fewer than n_samples *)
(* values, read_rra_file reports it, merge_data writes nothing to the      *)
(* destination file, and the call returns so that the next buffer is       *)
(* processed.                                                              *)
C13_ShortPayloadRejected ==
  ShortPayload =>
    /\ pc # "crash"
    /\ pc \in {"read_csv_data", "sort_data_for_rra", "fwrite", "done"} =>
          Len(io.msgs) > 0
    /\ rra_file = io.rra0

(* C14: when merge_data has returned, the destination file holds the whole *)
(* merged array of n_samples values or is as it was before the call; when  *)
(* the import file does not open, the destination file is left alone and   *)
(* merge_data returns.                                                     *)
C14_AllOrNothing ==
  /\ Returned => rra_file = io.rra0 \/ HoldsMerged
  /\ ~io.csv_ok => /\ pc \in {"merge_data", "returned:merge_data"}
                   /\ rra_file = io.rra0

(* both resolvers have answered for data and set_i *)
PathsDone == pc = "paths_done"

(* C15: get_csv_path and get_rra_path produce a path only for an index i   *)
(* with 0 <= i < n_sets; for any other index each returns NULL, prints its *)
(* out-of-range message and reads no element of data->subset.              *)
C15_PathOnlyInRange ==
  /\ pc \in {"get_rra_path", "paths_done"} =>
       /\ paths.csv.path # NULL => (0 <= set_i /\ set_i < data.n_sets)
       /\ ~(0 <= set_i /\ set_i < data.n_sets) =>
            /\ paths.csv.path = NULL /\ paths.csv.reads = {}
            /\ Len(paths.csv.msg) = 1
  /\ PathsDone =>
       /\ paths.rra.path # NULL => (0 <= set_i /\ set_i < data.n_sets)
       /\ ~(0 <= set_i /\ set_i < data.n_sets) =>
            /\ paths.rra.path = NULL /\ paths.rra.reads = {}
            /\ Len(paths.rra.msg) = 1
  /\ (paths # Unset /\ ~(0 <= set_i /\ set_i < data.n_sets)) => pc # "crash"

C15_Witness ==
  /\ PathsDone
  /\ data.n_sets = N_SUBSETS /\ set_i = N_SUBSETS
  /\ paths.csv.path = NULL /\ paths.rra.path = NULL
  /\ paths.csv.reads = {} /\ paths.rra.reads = {}

(* the command line gives -u with a directory that opens, and apart from   *)
(* it only -r, -e, -b and -L with a date, in any order                     *)
UploadCommandLine ==
  /\ \E k \in 2..(Len(argv) - 1) : argv[k] = "-u" /\ argv[k + 1] \in ValidDirs
  /\ \A k \in 2..Len(argv) :
       \/ argv[k] \in {"-r", "-e", "-b"}
       \/ argv[k] = "-u" /\ k < Len(argv) /\ argv[k + 1] \in ValidDirs
       \/ argv[k] \in ValidDirs /\ argv[k - 1] = "-u"
       \/ argv[k] = "-L" /\ k < Len(argv) /\ argv[k + 1] \in ValidDates
       \/ argv[k] \in ValidDates /\ argv[k - 1] = "-L"

(* the processing steps that take the import directory *)
DirSteps == {"read_pwrusage_and_merge", "unzip_exports", "rra_to_csv", "inject_data"}

(* C16: when the command line gives -u with a valid directory, whatever    *)
(* the order of the options -r, -e, -b and -L around it, every processing  *)
(* step main calls with an import directory is called with that directory. *)
C16_UploadDirUsed ==
  UploadCommandLine =>
    \A k \in DOMAIN calls :
      calls[k].fn \in DirSteps =>
        \E d \in ValidDirs : calls[k].arg = <<d, "/">>

(* sort_data_for_rra has computed the window *)
WindowDone == pc \in {"fwrite", "done"}

(* C19: for every file_offset in 0..n_samples-1, n_samples-1 included, the *)
(* window of sort_data_for_rra has as newest bound the reconstructed       *)
(* timestamp at slot file_offset and as oldest bound the one at slot       *)
(* (file_offset+1) mod n_samples, which is timestamp_1 - (n_samples-1) *   *)
(* interval; the oldest bound is not read outside slots 0..n_samples-1.    *)
C19_WindowBounds ==
  (WindowDone /\ N >= 1 /\ FO < N) =>
    /\ window[2] = time_rra[FO]
    /\ window[1] = time_rra[(FO + 1) % N]
    /\ window[1] = Oldest
    /\ "sort:time_rra[file_offset+1]" \notin oob

(* C20: for a buffer with n_samples = 0, create_rra_time returns an empty  *)
(* array and writes no slot at all.                                        *)
C20_EmptyBufferNoWrite ==
  (TimesDone /\ N = 0) =>
    /\ time_rra = <<>>
    /\ create_rra_time(sub).writes = <<>>
    /\ \A k \in Cells(N) : "create_rra_time:time_rra[" \o ToString(k) \o "]" \notin oob

(* the import file keeps more rows under the cutoff than the buffer has    *)
(* slots                                                                   *)
CapacityMismatch == Len(Retained) > N

(* C21: when more import rows are retained than the buffer has slots, no   *)
(* row is stored at an index >= n_samples of the import timestamp or value *)
(* array, and merge_data ends for that buffer without writing to its       *)
(* archive file.                                                           *)
C21_CapacityMismatchRejected ==
  (pc # "merge_data" /\ CapacityMismatch) =>
    /\ "read_csv_time:time_csv[j]" \notin oob
    /\ "read_csv_data:int_csv[j]" \notin oob
    /\ pc # "fwrite"
    /\ rra_file = io.rra0

(* the k-th .dat file holds a whole header with the magic token and the    *)
(* device id "placeholder"                                                 *)
PlaceholderFile(k) ==
  /\ dir[k].magic = MAGIC /\ dir[k].uuid = PLACEHOLDER
  /\ dir[k].cut >= HdrLen(dir[k])

(* C22: for a .dat file whose device id is "placeholder" the loop over the *)
(* .dat files resolves no path and runs no merge, does not stop, and goes  *)
(* on with the next file of the directory.                                 *)
C22_PlaceholderSkipped ==
  \A k \in 1..fidx :
    PlaceholderFile(k) =>
      /\ \A m \in 1..Len(merged) : merged[m][1] # k
      /\ k = fidx => pc \notin {"merge", "crash", "crash:read_dat_file"}
      /\ k = fidx => "get_csv_path:strncmp(NULL)" \notin oob

(* what sort_data_for_rra decides for each slot when the words read beyond *)
(* the arrays are g_min and g_t: -1, the destination value is kept, or the *)
(* index of the import entry stored; read off a run whose destination      *)
(* values are -100-i and whose import values are their own indices         *)
Decision(g_min, g_t) ==
  LET r == sort_data_for_rra(sub, [k \in DOMAIN int_csv |-> k],
                             [i \in 0..(N - 1) |-> (-100) - i],
                             time_csv, time_rra, g_min, g_t, N).int_tmp
  IN  [i \in 0..(N - 1) |-> IF r[i] = (-100) - i THEN -1 ELSE r[i]]

(* the output of a run on the same timestamps whose import values are all  *)
(* the unfilled value                                                      *)
UnfilledImport(g_min, g_t) ==
  sort_data_for_rra(sub, [k \in DOMAIN int_csv |-> UNFILLED], int_rra,
                    time_csv, time_rra, g_min, g_t, UNFILLED).int_tmp

(* C23: whether a slot of the output is overwritten, and with which import *)
(* row, is the same for all runs on the same destination and import        *)
(* timestamps whatever the values are; an import row holding the unfilled  *)
(* value 0x7fffffff overwrites the destination value like any other.       *)
C23_ValuesAreOrdinary ==
  WindowDone =>
    \A g_min \in Garbage, g_t \in Garbage :
      LET d == Decision(g_min, g_t)
          u == UnfilledImport(g_min, g_t)
      IN  \A i \in 0..(N - 1) :
            IF d[i] = -1
              THEN int_tmp[i] = int_rra[i] /\ u[i] = int_rra[i]
              ELSE /\ d[i] \in 0..(N - 1)
                   /\ int_tmp[i] = int_csv[d[i]]
                   /\ u[i] = UNFILLED

(* write_data_to_csv has ended for a buffer whose export file opened *)
Exported == pc \in {"export_done", "crash"} /\ io.csv_ok

(* the slots of the buffer that hold a filled value in the archive file,   *)
(* in slot order                                                           *)
FilledSlots ==
  LET Filled(j) == /\ rra_file # NULL /\ j + 1 <= Len(rra_file)
                   /\ IF FileIsInt THEN rra_file[j + 1] # UNFILLED
                                   ELSE ~isnan(rra_file[j + 1])
  IN  SelectSeq([k \in 1..N |-> k - 1], Filled)

(* C24: the file written by write_data_to_csv holds exactly one row for    *)
(* each slot whose value is not the unfilled value (0x7fffffff, NaN), in   *)
(* slot order, with the reconstructed timestamp and the value of the slot, *)
(* and no row for an unfilled slot.                                        *)
C24_ExportFilledSlots ==
  Exported =>
    /\ pc = "export_done"
    /\ Len(csv_file) = Len(FilledSlots)
    /\ \A k \in 1..Len(FilledSlots) :
         /\ csv_file[k].t = time_rra[FilledSlots[k]]
         /\ csv_file[k].v = IF FileIsInt THEN rra_file[FilledSlots[k] + 1]
                            ELSE PrintReal(rra_file[FilledSlots[k] + 1])

(* main has run its processing steps: the arguments passed the flag test   *)
(* and the database directory was found                                    *)
StepsRun == pc = "main:returned" /\ calls # <<>>

(* the steps that modify a destination file: the configuration file        *)
(* config_happ_pwrusage.xml, or the .rra archive files                     *)
ModifyingSteps == {"read_pwrusage_and_merge", "inject_data"}

(* C25: in a run with option -b that passes the argument test,             *)
(* create_backups is called, and has returned, before                      *)
(* read_pwrusage_and_merge and before inject_data are called.              *)
C25_BackupFirst ==
  (StepsRun /\ \E a \in 2..Len(argv) : argv[a] = "-b") =>
    /\ calls[1].fn = "create_backups"
    /\ \A k \in 1..Len(calls) :
         calls[k].fn \in ModifyingSteps =>
           \E b \in 1..(k - 1) : calls[b].fn = "create_backups"

C25_Witness ==
  /\ StepsRun
  /\ \E a \in 2..Len(argv) : argv[a] = "-b"
  /\ Len(calls) = 4
  /\ calls[1].fn = "create_backups"
  /\ calls[2].fn = "read_pwrusage_and_merge"
  /\ calls[4].fn = "inject_data"

(* the three processing branches of main *)
ImportSteps == {"read_pwrusage_and_merge", "unzip_exports", "download_exports_and_unzip"}

(* C26: whatever the options and their order, exp_flag and rra_flag are    *)
(* never both set; and when the flag test after the loop passes, exactly   *)
(* one of the three processing branches is taken and the branch that       *)
(* prints "Impossible error" is not.                                       *)
C26_ModeDispatch ==
  /\ ~(opt.exp_flag = 1 /\ opt.rra_flag = 1)
  /\ StepsRun =>
       /\ Cardinality({k \in 1..Len(calls) : calls[k].fn \in ImportSteps}) = 1
       /\ \A k \in 1..Len(calls) : calls[k].fn # "fprintf:Impossible error"

C26_Witness ==
  /\ StepsRun
  /\ \E a \in 2..Len(argv) : argv[a] = "-r"
  /\ \E a \in 2..Len(argv) : argv[a] = "-e"
  /\ \E a \in 2..Len(argv) : argv[a] = "-u"
  /\ calls[1].fn \in ImportSteps

(* C27: every call sort_data_for_rra makes to search reads the import      *)
(* timestamp array at indices 0..n_samples-1 only; index n_samples is      *)
(* never read, and no import value is taken from index n_samples.          *)
C27_SearchWithinImport ==
  WindowDone =>
    /\ "sort:time_csv[n_samples]" \notin oob
    /\ "sort:int_csv[n_samples]" \notin oob

(* C28: for a buffer with n_samples >= 1 and 0 <= file_offset < n_samples, *)
(* create_rra_time reads and writes slots 0..n_samples-1 only, and no slot *)
(* that holds its final value is assigned again.                           *)
C28_ReconstructorBounds ==
  (TimesDone /\ N >= 1 /\ FO < N) =>
    LET w == create_rra_time(sub).writes IN
      /\ \A k \in 1..Len(w) : w[k] \in 0..(N - 1)
      /\ \A k \in Cells(N) : "create_rra_time:time_rra[" \o ToString(k) \o "]" \notin oob
      /\ \A a, b \in 1..Len(w) : a < b => w[a] # w[b]

(* C29: the arrays built by read_csv_time and read_csv_data are parallel:  *)
(* for every retained index k, time_csv[k] and int_csv[k] are the          *)
(* timestamp and the value of one and the same row of the import file; and *)
(* with the cutoff 0x7fffffff of a run without -L every row of the file is *)
(* held in both arrays.                                                    *)
C29_ImportArraysParallel ==
  CsvDone =>
    /\ \A k \in 0..(Len(Retained) - 1) :
         /\ k \in DOMAIN time_csv /\ k \in DOMAIN int_csv
         /\ \E r \in 1..Len(csv_file) :
              time_csv[k] = csv_file[r].t /\ int_csv[k] = csv_file[r].v
    /\ max_time = NoCutoff =>
         \A r \in 1..Len(csv_file) :
           /\ r - 1 \in DOMAIN time_csv /\ time_csv[r - 1] = csv_file[r].t
           /\ r - 1 \in DOMAIN int_csv /\ int_csv[r - 1] = csv_file[r].v

====
